---- MODULE Spec2Model ----
(***************************************************************************)
(* A model of the repository status store (RepositoryObjectClient over the *)
(* Elasticsearch client) and of the plugin's init sequence (migration,     *)
(* queue, workers, schedulers).                                            *)
(***************************************************************************)
EXTENDS Integers, Sequences, FiniteSets, TLC

(***************************************************************************)
(* JavaScript values, tagged by kind.  An object carries a function from   *)
(* its own property names to values.                                       *)
(***************************************************************************)
Num(n) == [k |-> "num", n |-> n]
Str(s) == [k |-> "str", s |-> s]
DateV(t) == [k |-> "date", t |-> t]
Undef == [k |-> "undefined"]
Obj(f) == [k |-> "obj", f |-> f]

IsObj(v) == v.k = "obj"
Keys(v) == DOMAIN v.f
HasOwn(v, key) == IsObj(v) /\ key \in Keys(v)

\* Date.prototype.toJSON: the ISO-8601 text of the instant (epoch + t ms).
IsoString(t) == IF t = 0 THEN "1970-01-01T00:00:00.000Z" ELSE "1970-01-01T00:00:00.001Z"

(***************************************************************************)
(* JSON.stringify followed by the store's parse of the body: a Date        *)
(* becomes its ISO string, a property whose value is undefined is dropped, *)
(* everything else is kept, recursively.                                   *)
(***************************************************************************)
RECURSIVE JSONstringify(_)
JSONstringify(v) ==
  CASE v.k = "date" -> Str(IsoString(v.t))
    [] v.k = "obj" ->
         Obj([key \in {x \in Keys(v) : v.f[x].k # "undefined"} |-> JSONstringify(v.f[key])])
    [] OTHER -> v

(***************************************************************************)
(* The reserved field names, one per stage kind.                           *)
(***************************************************************************)
RepositoryReservedField == "repository"
RepositoryGitStatusReservedField == "repository_git_status"
RepositoryLspIndexStatusReservedField == "repository_lsp_index_status"
RepositoryDeleteStatusReservedField == "repository_delete_status"
ReservedFields ==
  { RepositoryReservedField, RepositoryGitStatusReservedField,
    RepositoryLspIndexStatusReservedField, RepositoryDeleteStatusReservedField }

Repos == {"r1", "r2", "r3"}
\* The repositories the status records are written for, and the stages
\* written for each: all four for the first, two for the second.
StoreRepos == {"r1", "r2"}
StoreFields(repoUri) ==
  IF repoUri = "r1" THEN ReservedFields
  ELSE {RepositoryReservedField, RepositoryGitStatusReservedField}

\* The name prefix of the repository indices.
RepositoryIndexNamePrefix == ".code-repository"

\* One dedicated status index per repository uri, named under the prefix.
RepositoryStatusIndexName(repoUri) == <<RepositoryIndexNamePrefix, "status", repoUri>>

\* Mutant: every stage of a repository is stored under one document id.
getRepositoryObjectId_shared(reservedFieldName) == "status"

getRepositoryObjectId(reservedFieldName) == reservedFieldName

(***************************************************************************)
(* The Elasticsearch document API as the client sees it.  A store maps     *)
(* <<index, id>> to the document's _source, or to NoDoc.  A request on a   *)
(* missing document is answered 404 and the client rejects with NotFound   *)
(* (no request here passes ignore: [404]).                                 *)
(***************************************************************************)
NoDoc == [k |-> "absent"]
NoValue == [k |-> "none"]
Ok(v) == [status |-> "ok", value |-> v]
NotFound == [status |-> "NotFound", value |-> NoValue]
\* Reading a property of undefined: the call rejects with a TypeError.
TypeError == [status |-> "TypeError", value |-> NoValue]
\* A JavaScript array.
Arr(items) == [k |-> "arr", items |-> items]
\* A document that is indexed but comes back without a _source.
NoSource == [k |-> "nosource"]

DocKeys == {<<RepositoryStatusIndexName(r), getRepositoryObjectId(f)>> : r \in Repos, f \in ReservedFields}
EmptyStore == [d \in DocKeys |-> NoDoc]
Exists(store, index, id) == store[<<index, id>>] # NoDoc

\* Partial-document merge of an update request: objects merge key by key,
\* recursively; any other value replaces the old one.
RECURSIVE Merge(_, _)
Merge(old, new) ==
  Obj([key \in Keys(old) \cup Keys(new) |->
         IF key \notin Keys(new) THEN old.f[key]
         ELSE IF key \in Keys(old) /\ IsObj(old.f[key]) /\ IsObj(new.f[key])
              THEN Merge(old.f[key], new.f[key])
              ELSE new.f[key]])

\* The search request asks for the hits from 0 on, at most size of them
\* (10000 in the source, scaled here to the number of repositories).
size == 2

MinOf(a, b) == IF a < b THEN a ELSE b

\* The exists query: the document has a value indexed for the field.
ExistsField(doc, field) == doc = NoSource \/ HasOwn(doc, field)

Hit(view, d) ==
  [_index |-> d[1], _id |-> d[2], _source |-> IF view[d] = NoSource THEN Undef ELSE view[d]]

\* The orderings of a set of documents (the store returns the hits of an
\* unsorted query in an order of its own).
RECURSIVE Orderings(_)
Orderings(S) ==
  IF S = {} THEN {<<>>}
  ELSE UNION {{<<x>> \o t : t \in Orderings(S \ {x})} : x \in S}

\* Mutant: the search ignores the page size and answers with every match.
EsSearch_unbounded(view, indexPrefix, field, from, pageSize) ==
  LET matching == {d \in DocKeys : /\ d[1][1] = indexPrefix
                                    /\ view[d] # NoDoc
                                    /\ ExistsField(view[d], field)}
  IN  { [i \in 1..Len(o) |-> Hit(view, o[i])] : o \in Orderings(matching) }

\* search over the indices matching indexPrefix*, in the view the store's
\* search has: every page the store may answer with.
EsSearch(view, indexPrefix, field, from, pageSize) ==
  LET matching == {d \in DocKeys : /\ d[1][1] = indexPrefix
                                    /\ view[d] # NoDoc
                                    /\ ExistsField(view[d], field)}
  IN  { [i \in 1..(MinOf(from + pageSize, Len(o)) - from) |-> Hit(view, o[from + i])] :
          o \in Orderings(matching) }

EsGet(store, index, id) ==
  IF Exists(store, index, id) THEN Ok(store[<<index, id>>]) ELSE NotFound

EsIndex(store, index, id, body) ==
  [store |-> [store EXCEPT ![<<index, id>>] = body], res |-> Ok(NoValue)]

EsUpdate(store, index, id, body) ==
  IF Exists(store, index, id)
  THEN [store |-> [store EXCEPT ![<<index, id>>] = Merge(@, body.f["doc"])],
        res |-> Ok(NoValue)]
  ELSE [store |-> store, res |-> NotFound]

EsDelete(store, index, id) ==
  IF Exists(store, index, id)
  THEN [store |-> [store EXCEPT ![<<index, id>>] = NoDoc], res |-> Ok(NoValue)]
  ELSE [store |-> store, res |-> NotFound]

(***************************************************************************)
(* RepositoryObjectClient.  A read returns a response; a write returns the *)
(* new store and the response.                                             *)
(***************************************************************************)
\* Mutant: the get passes ignore: [404]; a missing document reads as undefined.
getRepositoryObject_ignore404(store, repoUri, reservedFieldName) ==
  LET res == EsGet(store, RepositoryStatusIndexName(repoUri),
                   getRepositoryObjectId(reservedFieldName))
  IN  IF res.status = "ok" /\ HasOwn(res.value, reservedFieldName)
      THEN Ok(res.value.f[reservedFieldName])
      ELSE Ok(Undef)

getRepositoryObject(store, repoUri, reservedFieldName) ==
  LET res == EsGet(store, RepositoryStatusIndexName(repoUri),
                   getRepositoryObjectId(reservedFieldName))
  IN  IF res.status # "ok" THEN res
      ELSE IF res.value = NoSource THEN TypeError
      ELSE IF HasOwn(res.value, reservedFieldName)
           THEN Ok(res.value.f[reservedFieldName])
           ELSE Ok(Undef)

\* Mutant: the set merges into an existing document instead of replacing it.
setRepositoryObject_merge(store, repoUri, reservedFieldName, obj) ==
  IF Exists(store, RepositoryStatusIndexName(repoUri), getRepositoryObjectId(reservedFieldName))
  THEN EsUpdate(store, RepositoryStatusIndexName(repoUri),
                getRepositoryObjectId(reservedFieldName),
                JSONstringify(Obj("doc" :> Obj(reservedFieldName :> obj))))
  ELSE EsIndex(store, RepositoryStatusIndexName(repoUri),
               getRepositoryObjectId(reservedFieldName),
               JSONstringify(Obj(reservedFieldName :> obj)))

\* Mutant: the set is sent as a create; an existing document is a conflict
\* and stays as it was.
setRepositoryObject_create(store, repoUri, reservedFieldName, obj) ==
  IF Exists(store, RepositoryStatusIndexName(repoUri), getRepositoryObjectId(reservedFieldName))
  THEN [store |-> store, res |-> [status |-> "Conflict", value |-> NoValue]]
  ELSE EsIndex(store, RepositoryStatusIndexName(repoUri),
               getRepositoryObjectId(reservedFieldName),
               JSONstringify(Obj(reservedFieldName :> obj)))

setRepositoryObject(store, repoUri, reservedFieldName, obj) ==
  EsIndex(store, RepositoryStatusIndexName(repoUri),
          getRepositoryObjectId(reservedFieldName),
          JSONstringify(Obj(reservedFieldName :> obj)))

\* Mutant: the update is sent with doc_as_upsert, creating a missing document.
updateRepositoryObject_upsert(store, repoUri, reservedFieldName, obj) ==
  IF Exists(store, RepositoryStatusIndexName(repoUri), getRepositoryObjectId(reservedFieldName))
  THEN EsUpdate(store, RepositoryStatusIndexName(repoUri),
                getRepositoryObjectId(reservedFieldName),
                JSONstringify(Obj("doc" :> Obj(reservedFieldName :> obj))))
  ELSE EsIndex(store, RepositoryStatusIndexName(repoUri),
               getRepositoryObjectId(reservedFieldName),
               JSONstringify(Obj(reservedFieldName :> obj)))

\* Mutant: the update replaces the whole value of an existing document.
updateRepositoryObject_replace(store, repoUri, reservedFieldName, obj) ==
  IF Exists(store, RepositoryStatusIndexName(repoUri), getRepositoryObjectId(reservedFieldName))
  THEN EsIndex(store, RepositoryStatusIndexName(repoUri),
               getRepositoryObjectId(reservedFieldName),
               JSONstringify(Obj(reservedFieldName :> obj)))
  ELSE [store |-> store, res |-> NotFound]

updateRepositoryObject(store, repoUri, reservedFieldName, obj) ==
  EsUpdate(store, RepositoryStatusIndexName(repoUri),
           getRepositoryObjectId(reservedFieldName),
           JSONstringify(Obj("doc" :> Obj(reservedFieldName :> obj))))

deleteRepositoryObject(store, repoUri, reservedFieldName) ==
  EsDelete(store, RepositoryStatusIndexName(repoUri),
           getRepositoryObjectId(reservedFieldName))

getRepositoryGitStatus(store, repoUri) ==
  getRepositoryObject(store, repoUri, RepositoryGitStatusReservedField)
\* Mutant: the index status getter reads the git status field.
getRepositoryLspIndexStatus_gitField(store, repoUri) ==
  getRepositoryObject(store, repoUri, RepositoryGitStatusReservedField)
\* Mutant: the index status getter reads the delete status field.
getRepositoryLspIndexStatus_deleteField(store, repoUri) ==
  getRepositoryObject(store, repoUri, RepositoryDeleteStatusReservedField)

getRepositoryLspIndexStatus(store, repoUri) ==
  getRepositoryObject(store, repoUri, RepositoryLspIndexStatusReservedField)
getRepositoryDeleteStatus(store, repoUri) ==
  getRepositoryObject(store, repoUri, RepositoryDeleteStatusReservedField)
getRepository(store, repoUri) ==
  getRepositoryObject(store, repoUri, RepositoryReservedField)

\* getAllRepository: every response the call may give on the search view.
\* hit._source[RepositoryReservedField] of each hit, in the hits' order; a hit
\* without _source makes the map throw.
getAllRepository(view) ==
  { IF \E i \in 1..Len(hits) : hits[i]._source = Undef
    THEN TypeError
    ELSE Ok(Arr([i \in 1..Len(hits) |->
                   IF HasOwn(hits[i]._source, RepositoryReservedField)
                   THEN hits[i]._source.f[RepositoryReservedField]
                   ELSE Undef])) :
      hits \in EsSearch(view, RepositoryIndexNamePrefix, RepositoryReservedField, 0, size) }

\* Mutant: the clone status setter writes the index status field.
setRepositoryGitStatus_lspField(store, repoUri, gitStatus) ==
  setRepositoryObject(store, repoUri, RepositoryLspIndexStatusReservedField, gitStatus)

setRepositoryGitStatus(store, repoUri, gitStatus) ==
  setRepositoryObject(store, repoUri, RepositoryGitStatusReservedField, gitStatus)
setRepositoryLspIndexStatus(store, repoUri, indexStatus) ==
  setRepositoryObject(store, repoUri, RepositoryLspIndexStatusReservedField, indexStatus)
setRepositoryDeleteStatus(store, repoUri, deleteStatus) ==
  setRepositoryObject(store, repoUri, RepositoryDeleteStatusReservedField, deleteStatus)
setRepository(store, repoUri, repo) ==
  setRepositoryObject(store, repoUri, RepositoryReservedField, repo)

updateRepositoryGitStatus(store, repoUri, obj) ==
  updateRepositoryObject(store, repoUri, RepositoryGitStatusReservedField, obj)
updateRepositoryLspIndexStatus(store, repoUri, obj) ==
  updateRepositoryObject(store, repoUri, RepositoryLspIndexStatusReservedField, obj)
updateRepositoryDeleteStatus(store, repoUri, obj) ==
  updateRepositoryObject(store, repoUri, RepositoryDeleteStatusReservedField, obj)
updateRepository(store, repoUri, obj) ==
  updateRepositoryObject(store, repoUri, RepositoryReservedField, obj)

deleteRepository(store, repoUri) ==
  deleteRepositoryObject(store, repoUri, RepositoryReservedField)

\* The requests to the esClient that a call of each kind of method issues.
esClientRequests(op) ==
  CASE op = "get" -> <<"get">>
    [] op = "list" -> <<"search">>
    [] op = "set" -> <<"index">>
    [] op = "update" -> <<"update">>
    [] op = "delete" -> <<"delete">>

\* The public method of each kind that serves a reserved field.
GetOf(store, repoUri, field) ==
  CASE field = RepositoryGitStatusReservedField -> getRepositoryGitStatus(store, repoUri)
    [] field = RepositoryLspIndexStatusReservedField -> getRepositoryLspIndexStatus(store, repoUri)
    [] field = RepositoryDeleteStatusReservedField -> getRepositoryDeleteStatus(store, repoUri)
    [] field = RepositoryReservedField -> getRepository(store, repoUri)
SetOf(store, repoUri, field, obj) ==
  CASE field = RepositoryGitStatusReservedField -> setRepositoryGitStatus(store, repoUri, obj)
    [] field = RepositoryLspIndexStatusReservedField -> setRepositoryLspIndexStatus(store, repoUri, obj)
    [] field = RepositoryDeleteStatusReservedField -> setRepositoryDeleteStatus(store, repoUri, obj)
    [] field = RepositoryReservedField -> setRepository(store, repoUri, obj)
UpdateOf(store, repoUri, field, obj) ==
  CASE field = RepositoryGitStatusReservedField -> updateRepositoryGitStatus(store, repoUri, obj)
    [] field = RepositoryLspIndexStatusReservedField -> updateRepositoryLspIndexStatus(store, repoUri, obj)
    [] field = RepositoryDeleteStatusReservedField -> updateRepositoryDeleteStatus(store, repoUri, obj)
    [] field = RepositoryReservedField -> updateRepository(store, repoUri, obj)

(***************************************************************************)
(* State.                                                                  *)
(*   es       the document store behind the Elasticsearch client           *)
(*   searchable  the documents as the store's search sees them: the store  *)
(*            as of its latest refresh                                     *)
(*   calls    per client of the store, its update call: not made, sent     *)
(*            (the request is in flight) or returned, with the partial     *)
(*            value, the record as it was when the call was made and the   *)
(*            outcome                                                      *)
(*   resp     the most recent client call: its method kind, its arguments, *)
(*            what it returned and, for a set or an update, what a get of  *)
(*            the record returned just before it                           *)
(*   lastSet  history: the latest set whose record has not been written    *)
(*            since (or None)                                              *)
(* and, for the plugin's init and the job orchestration it wires:          *)
(*   disableScheduler  the code.disableScheduler configuration value       *)
(*   pc          where init stands                                         *)
(*   migration   how far tryMigrateIndices has come                        *)
(*   migrationCalls  how often tryMigrateIndices was called                *)
(*   queueCreated    the Esqueue exists                                    *)
(*   bound       the worker types bound to the queue                       *)
(*   started     the schedulers started                                    *)
(*   routes      the server routes are registered                          *)
(*   ticked      history: the schedulers that have ticked, with what the   *)
(*               tick did (enqueued a refresh job or skipped)              *)
(*   queued      the jobs waiting in the queue, per type and repository    *)
(*   running     per worker type, the job it handles and how far it is     *)
(*   handles     the cancellation service: per cancellable job type and    *)
(*               repository, the handle (none, live or signalled)          *)
(*   cancelAsked history: the jobs that were in flight for the repository  *)
(*               when the delete worker requested cancellation             *)
(*   now         the clock                                                 *)
(***************************************************************************)
VARIABLES es, searchable, calls, resp, lastSet,
          disableScheduler, pc, migration, migrationCalls, queueCreated, bound,
          started, routes, ticked, queued, running, handles, cancelAsked, now

storeVars == <<es, searchable, calls, resp, lastSet>>
initVars == <<disableScheduler, pc, migration, migrationCalls, queueCreated, bound,
              started, routes>>
jobVars == <<ticked, queued, running, handles, cancelAsked, now>>
vars == <<es, searchable, calls, resp, lastSet,
          disableScheduler, pc, migration, migrationCalls, queueCreated, bound,
          started, routes, ticked, queued, running, handles, cancelAsked, now>>

None == [k |-> "none"]

\* How many status documents the explored stores hold at most.
MaxRecords == 2

\* Whole values handed to set: a JSON-clean progress with a nested object,
\* and a progress carrying a Date and an undefined optional field.
Values ==
  { Obj([progress |-> Num(0),
         cloneProgress |-> Obj([receivedObjects |-> Num(1), totalObjects |-> Num(2)])]),
    Obj([progress |-> Num(100), timestamp |-> DateV(0), errorMessage |-> Undef,
         cloneProgress |-> Obj([receivedObjects |-> Num(2)])]) }

\* Partial values handed to update: a scalar with a nested object, and a
\* property that is present but undefined.
Partials ==
  { Obj([progress |-> Num(100), cloneProgress |-> Obj([receivedObjects |-> Num(2)])]),
    Obj([progress |-> Undef]) }

NumRecords(store) == Cardinality({d \in DocKeys : store[d] # NoDoc})
HasRecord(store, repoUri, field) ==
  Exists(store, RepositoryStatusIndexName(repoUri), getRepositoryObjectId(field))

Call(op, repoUri, field, arg, before, res) ==
  [op |-> op, repo |-> repoUri, field |-> field, arg |-> arg, before |-> before,
   status |-> res.status, value |-> res.value]

SameRecord(h, repoUri, field) == h # None /\ h.repo = repoUri /\ h.field = field

Clients == {"c1", "c2"}
NoCall == [phase |-> "idle"]

StoreInit ==
  /\ es = EmptyStore
  /\ searchable = EmptyStore
  /\ calls = [c \in Clients |-> NoCall]
  /\ resp = Call("none", "r1", RepositoryReservedField, NoValue, NoValue, Ok(NoValue))
  /\ lastSet = None

Get(repoUri, field) ==
  /\ resp' = Call("get", repoUri, field, NoValue, NoValue, GetOf(es, repoUri, field))
  /\ UNCHANGED <<es, searchable, calls, lastSet, initVars, jobVars>>

Set(repoUri, field, obj) ==
  LET out == SetOf(es, repoUri, field, obj)
      before == GetOf(es, repoUri, field)
  IN
  /\ HasRecord(es, repoUri, field) \/ NumRecords(es) < MaxRecords
  /\ es' = out.store
  /\ resp' = Call("set", repoUri, field, obj, before.value, out.res)
  /\ lastSet' = [repo |-> repoUri, field |-> field, value |-> obj]
  /\ UNCHANGED <<searchable, calls, initVars, jobVars>>

Update(repoUri, field, obj) ==
  LET out == UpdateOf(es, repoUri, field, obj)
      before == GetOf(es, repoUri, field)
  IN
  /\ es' = out.store
  /\ resp' = Call("update", repoUri, field, obj, before.value, out.res)
  /\ lastSet' = IF out.res.status = "ok" /\ SameRecord(lastSet, repoUri, field)
                THEN None ELSE lastSet
  /\ UNCHANGED <<searchable, calls, initVars, jobVars>>

Delete(repoUri) ==
  LET out == deleteRepository(es, repoUri) IN
  /\ es' = out.store
  /\ resp' = Call("delete", repoUri, RepositoryReservedField, NoValue, NoValue, out.res)
  /\ lastSet' = IF out.res.status = "ok" /\ SameRecord(lastSet, repoUri, RepositoryReservedField)
                THEN None ELSE lastSet
  /\ UNCHANGED <<searchable, calls, initVars, jobVars>>

StoreNext ==
  \/ \E r \in StoreRepos : \E f \in StoreFields(r) : Get(r, f)
  \/ \E r \in StoreRepos : \E f \in StoreFields(r), v \in Values : Set(r, f, v)
  \/ \E r \in StoreRepos : \E f \in StoreFields(r), p \in Partials : Update(r, f, p)
  \/ \E r \in StoreRepos : Delete(r)

(***************************************************************************)
(* The plugin's init: construct the collaborators, await the migration,    *)
(* create the queue, bind the four workers, start the schedulers unless    *)
(* disabled, register the routes.                                          *)
(***************************************************************************)
WorkerTypes == {"index", "clone", "delete", "update"}
Schedulers == {"update", "index"}

\* The order in which init binds the workers.
BindOrder == <<"index", "clone", "delete", "update">>

\* The workers constructed with the cancellation service.
CancellationWired == {"index", "delete"}

\* The job types whose in-flight work a delete asks to cancel.
Cancellable == {"clone", "index"}

Idle == [repo |-> "none", phase |-> "idle"]

SysInit ==
  /\ pc = "construct"
  /\ migration = "notRun"
  /\ migrationCalls = 0
  /\ queueCreated = FALSE
  /\ bound = {}
  /\ started = {}
  /\ routes = FALSE
  /\ ticked = {}
  /\ queued = [t \in WorkerTypes |-> [r \in Repos |-> 0]]
  /\ running = [t \in WorkerTypes |-> Idle]
  /\ handles = [t \in Cancellable |-> [r \in Repos |-> "none"]]
  /\ cancelAsked = [r \in Repos |-> {}]
  /\ now = 0

\* tryMigrateIndices: check the version marker; a store that is current is
\* left alone, one that is behind is transformed; the promise resolves when
\* the store is current and rejects when the migration cannot complete.
MigrateNoop ==
  /\ migration = "checking"
  /\ migration' = "done"
  /\ UNCHANGED <<storeVars, disableScheduler, pc, migrationCalls, queueCreated, bound,
                 started, routes, jobVars>>

MigrateBegin ==
  /\ migration = "checking"
  /\ migration' = "partial"
  /\ UNCHANGED <<storeVars, disableScheduler, pc, migrationCalls, queueCreated, bound,
                 started, routes, jobVars>>

MigrateFinish ==
  /\ migration = "partial"
  /\ migration' = "done"
  /\ UNCHANGED <<storeVars, disableScheduler, pc, migrationCalls, queueCreated, bound,
                 started, routes, jobVars>>

MigrateFail ==
  /\ migration \in {"checking", "partial"}
  /\ migration' = "failed"
  /\ UNCHANGED <<storeVars, disableScheduler, pc, migrationCalls, queueCreated, bound,
                 started, routes, jobVars>>

\* init calls tryMigrateIndices(esClient, log) and awaits it.
CallMigrate ==
  /\ pc = "construct"
  /\ pc' = "migrate"
  /\ migration' = "checking"
  /\ migrationCalls' = migrationCalls + 1
  /\ UNCHANGED <<storeVars, disableScheduler, queueCreated, bound, started, routes, jobVars>>

\* Mutant: the call is not awaited; init goes on while the migration runs.
AwaitResolved_noAwait == migration \in {"checking", "partial", "done"}

\* Mutant: a rejected migration is caught and init goes on.
AwaitResolved_swallow == migration \in {"done", "failed"}

\* The awaited promise has resolved.
AwaitResolved == migration = "done"

\* The awaited promise has rejected: init throws and nothing after runs.
AwaitRejected == migration = "failed"

MigrationResolved ==
  /\ pc = "migrate"
  /\ AwaitResolved
  /\ pc' = "queue"
  /\ UNCHANGED <<storeVars, disableScheduler, migration, migrationCalls, queueCreated, bound,
                 started, routes, jobVars>>

MigrationRejected ==
  /\ pc = "migrate"
  /\ AwaitRejected
  /\ pc' = "failed"
  /\ UNCHANGED <<storeVars, disableScheduler, migration, migrationCalls, queueCreated, bound,
                 started, routes, jobVars>>

CreateQueue ==
  /\ pc = "queue"
  /\ queueCreated' = TRUE
  /\ pc' = "bind"
  /\ UNCHANGED <<storeVars, disableScheduler, migration, migrationCalls, bound, started,
                 routes, jobVars>>

BindWorker ==
  /\ pc = "bind"
  /\ bound' = bound \cup {BindOrder[Cardinality(bound) + 1]}
  /\ pc' = IF Cardinality(bound) + 1 = Len(BindOrder) THEN "schedulers" ELSE "bind"
  /\ UNCHANGED <<storeVars, disableScheduler, migration, migrationCalls, queueCreated,
                 started, routes, jobVars>>

\* Mutant: the schedulers are started whatever the switch says.
SchedulersEnabled_always == TRUE

SchedulersEnabled == ~disableScheduler

StartSchedulers ==
  /\ pc = "schedulers"
  /\ started' = IF SchedulersEnabled THEN Schedulers ELSE started
  /\ pc' = "routes"
  /\ UNCHANGED <<storeVars, disableScheduler, migration, migrationCalls, queueCreated, bound,
                 routes, jobVars>>

RegisterRoutes ==
  /\ pc = "routes"
  /\ routes' = TRUE
  /\ pc' = "done"
  /\ UNCHANGED <<storeVars, disableScheduler, migration, migrationCalls, queueCreated, bound,
                 started, jobVars>>

InitNext ==
  \/ CallMigrate
  \/ MigrateNoop
  \/ MigrateBegin
  \/ MigrateFinish
  \/ MigrateFail
  \/ MigrationResolved
  \/ MigrationRejected
  \/ CreateQueue
  \/ BindWorker
  \/ StartSchedulers
  \/ RegisterRoutes

(***************************************************************************)
(* The job orchestration the init wires: the queue, the four workers, the  *)
(* cancellation service and the two schedulers.                            *)
(***************************************************************************)
\* How many jobs (queued or being handled) the explored runs hold at most.
MaxJobs == 2
\* How far the clock runs.
MaxTime == 2
\* The configured per-repository refresh frequency, in clock units: the
\* longest one under which the clock still reaches staleness.
RepoFrequency == MaxTime - 1
\* The repositories that jobs are enqueued for.
JobRepos == {"r1"}

\* A WorkerProgress value and a Repository value.
Progress(state, t) == Obj([state |-> Str(state), timestamp |-> Num(t)])
RepositoryOf(repoUri) == Obj([uri |-> Str(repoUri)])

\* The status record that tracks each job type.
StageField(type) ==
  CASE type = "clone" -> RepositoryGitStatusReservedField
    [] type = "update" -> RepositoryGitStatusReservedField
    [] type = "index" -> RepositoryLspIndexStatusReservedField
    [] type = "delete" -> RepositoryDeleteStatusReservedField

StateOf(res) ==
  IF res.status = "ok" /\ HasOwn(res.value, "state") THEN res.value.f["state"].s ELSE "none"
TimeOf(res) ==
  IF res.status = "ok" /\ HasOwn(res.value, "timestamp") THEN res.value.f["timestamp"].n ELSE 0

\* The single-flight check: the stage's status is not Running.
NotRunning(store, type, repoUri) ==
  StateOf(GetOf(store, repoUri, StageField(type))) # "Running"

\* The repositories a scheduler's enumeration finds (ticks are far apart
\* next to the store's refresh interval: the tick searches a refreshed view).
Enumerated(store) ==
  UNION { {res.value.items[i] : i \in 1..Len(res.value.items)} :
            res \in {x \in getAllRepository(store) : x.status = "ok"} }
NumJobs ==
  LET pairs == WorkerTypes \X Repos
      RECURSIVE Sum(_)
      Sum(S) == IF S = {} THEN 0
                ELSE LET x == CHOOSE y \in S : TRUE
                     IN queued[x[1]][x[2]] + Sum(S \ {x})
  IN Sum(pairs) + Cardinality({t \in WorkerTypes : running[t] # Idle})

Enqueued(type, repoUri) == [queued EXCEPT ![type][repoUri] = @ + 1]

\* A route of the server registers a repository and enqueues its clone.
ExternalClone(repoUri) ==
  /\ routes
  /\ NumJobs < MaxJobs
  /\ NotRunning(es, "clone", repoUri)
  /\ es' = setRepository(es, repoUri, RepositoryOf(repoUri)).store
  /\ queued' = Enqueued("clone", repoUri)
  /\ UNCHANGED <<searchable, calls, resp, lastSet, initVars, ticked, running, handles, cancelAsked, now>>

\* A route of the server enqueues an index or a delete job.
ExternalEnqueue(type, repoUri) ==
  /\ routes
  /\ NumJobs < MaxJobs
  /\ NotRunning(es, type, repoUri)
  /\ queued' = Enqueued(type, repoUri)
  /\ UNCHANGED <<storeVars, initVars, ticked, running, handles, cancelAsked, now>>

\* A worker with the cancellation service registers a handle for its job.
Registered(type, repoUri) ==
  IF type \in CancellationWired /\ type \in Cancellable
  THEN [handles EXCEPT ![type][repoUri] = "live"]
  ELSE handles
Unregistered(type, repoUri) ==
  IF type \in CancellationWired /\ type \in Cancellable
  THEN [handles EXCEPT ![type][repoUri] = "none"]
  ELSE handles
Signalled(type, repoUri) ==
  type \in Cancellable /\ handles[type][repoUri] = "signalled"

\* A bound worker takes a job of its type and marks the stage Running.
Start(type, repoUri) ==
  /\ type \in bound
  /\ running[type] = Idle
  /\ queued[type][repoUri] > 0
  /\ queued' = [queued EXCEPT ![type][repoUri] = @ - 1]
  /\ running' = [running EXCEPT ![type] = [repo |-> repoUri, phase |-> "running"]]
  /\ es' = SetOf(es, repoUri, StageField(type), Progress("Running", now)).store
  /\ handles' = Registered(type, repoUri)
  /\ UNCHANGED <<searchable, calls, resp, lastSet, initVars, ticked, cancelAsked, now>>

UpdateStart(repoUri) ==
  /\ "update" \in bound
  /\ running["update"] = Idle
  /\ queued["update"][repoUri] > 0
  /\ queued' = [queued EXCEPT !["update"][repoUri] = @ - 1]
  /\ running' = [running EXCEPT !["update"] = [repo |-> repoUri, phase |-> "running"]]
  /\ es' = updateRepositoryGitStatus(es, repoUri, Progress("Running", now)).store
  /\ UNCHANGED <<searchable, calls, resp, lastSet, initVars, ticked, handles, cancelAsked, now>>

\* The delete worker takes a job, marks DeleteStatus Running and asks the
\* cancellation service to cancel the repository's clone and index jobs.
DeleteStart(repoUri) ==
  /\ "delete" \in bound
  /\ running["delete"] = Idle
  /\ queued["delete"][repoUri] > 0
  /\ queued' = [queued EXCEPT !["delete"][repoUri] = @ - 1]
  /\ running' = [running EXCEPT !["delete"] = [repo |-> repoUri, phase |-> "waiting"]]
  /\ es' = setRepositoryDeleteStatus(es, repoUri, Progress("Running", now)).store
  /\ handles' = [t \in Cancellable |->
                  [handles[t] EXCEPT ![repoUri] = IF @ = "live" THEN "signalled" ELSE @]]
  /\ cancelAsked' = [cancelAsked EXCEPT ![repoUri] =
                       {t \in Cancellable : running[t].repo = repoUri}]
  /\ UNCHANGED <<searchable, calls, resp, lastSet, initVars, ticked, now>>

Finished(type) ==
  /\ running' = [running EXCEPT ![type] = Idle]
  /\ cancelAsked' = [cancelAsked EXCEPT ![running[type].repo] = @ \ {type}]

\* The clone ends: on success the index job of the repository is enqueued on
\* the index worker and GitCloneStatus becomes Completed; on failure it
\* becomes Failed.
CloneFinish(ok) ==
  LET r == running["clone"].repo IN
  /\ running["clone"].phase = "running"
  /\ IF Signalled("clone", r)
     THEN /\ es' = setRepositoryGitStatus(es, r, Progress("Cancelled", now)).store
          /\ UNCHANGED queued
     ELSE IF ok
     THEN /\ es' = setRepositoryGitStatus(es, r, Progress("Completed", now)).store
          /\ queued' = Enqueued("index", r)
     ELSE /\ es' = setRepositoryGitStatus(es, r, Progress("Failed", now)).store
          /\ UNCHANGED queued
  /\ handles' = Unregistered("clone", r)
  /\ Finished("clone")
  /\ UNCHANGED <<searchable, calls, resp, lastSet, initVars, ticked, now>>

\* The index ends: Cancelled when its handle was signalled, else Completed
\* or Failed.
IndexFinish(ok) ==
  LET r == running["index"].repo IN
  /\ running["index"].phase = "running"
  /\ es' = setRepositoryLspIndexStatus(es, r,
             Progress(IF Signalled("index", r) THEN "Cancelled"
                      ELSE IF ok THEN "Completed" ELSE "Failed", now)).store
  /\ handles' = Unregistered("index", r)
  /\ Finished("index")
  /\ UNCHANGED <<searchable, calls, resp, lastSet, initVars, ticked, queued, now>>

\* The update ends: on success the staleness marker is reset.
UpdateFinish(ok) ==
  LET r == running["update"].repo IN
  /\ running["update"].phase = "running"
  /\ es' = updateRepositoryGitStatus(es, r,
             Progress(IF ok THEN "Completed" ELSE "Failed", now)).store
  /\ Finished("update")
  /\ UNCHANGED <<searchable, calls, resp, lastSet, initVars, ticked, queued, handles, now>>

\* The delete worker has its acknowledgement (the jobs it asked to cancel have
\* ended) or its wait has timed out: it removes the repository's records.
DeleteFinish(timeout) ==
  LET r == running["delete"].repo IN
  /\ running["delete"].phase = "waiting"
  /\ timeout \/ cancelAsked[r] = {}
  /\ es' = [d \in DocKeys |-> IF d[1] = RepositoryStatusIndexName(r) THEN NoDoc ELSE es[d]]
  /\ running' = [running EXCEPT !["delete"] = Idle]
  /\ cancelAsked' = [cancelAsked EXCEPT ![r] = {}]
  /\ UNCHANGED <<searchable, calls, resp, lastSet, initVars, ticked, queued, handles, now>>

\* A started scheduler, during a tick, looks at one enumerated repository:
\* stale and not Running, it enqueues the refresh job.
Stale(store, type, repoUri) ==
  LET st == GetOf(store, repoUri, StageField(type)) IN
  st.status = "ok" /\ now - TimeOf(st) > RepoFrequency

SchedulerTick(s, repoUri) ==
  LET due == Stale(es, s, repoUri) /\ NotRunning(es, s, repoUri) IN
  /\ s \in started
  /\ RepositoryOf(repoUri) \in Enumerated(es)
  /\ due => NumJobs < MaxJobs
  /\ ticked' = ticked \cup {<<s, IF due THEN "enqueued" ELSE "skipped">>}
  /\ queued' = IF due THEN Enqueued(s, repoUri) ELSE queued
  /\ UNCHANGED <<storeVars, initVars, running, handles, cancelAsked, now>>

Advance ==
  /\ now < MaxTime
  /\ now' = now + 1
  /\ UNCHANGED <<storeVars, initVars, ticked, queued, running, handles, cancelAsked>>

JobNext ==
  \/ \E r \in JobRepos : ExternalClone(r)
  \/ \E t \in {"index", "delete"}, r \in JobRepos : ExternalEnqueue(t, r)
  \/ \E t \in {"clone", "index"}, r \in JobRepos : Start(t, r)
  \/ \E r \in JobRepos : UpdateStart(r)
  \/ \E r \in JobRepos : DeleteStart(r)
  \/ \E ok \in BOOLEAN : CloneFinish(ok)
  \/ \E ok \in BOOLEAN : IndexFinish(ok)
  \/ \E ok \in BOOLEAN : UpdateFinish(ok)
  \/ \E timeout \in BOOLEAN : DeleteFinish(timeout)
  \/ \E s \in Schedulers, r \in JobRepos : SchedulerTick(s, r)
  \/ Advance

(***************************************************************************)
(* The enumeration: repositories are registered and removed, statuses are  *)
(* written, the store refreshes its search view, and getAllRepository is   *)
(* called.                                                                 *)
(***************************************************************************)
\* The repository that gets a status record.
StatusRepos == {"r2"}
\* The repository whose metadata document may turn out corrupt.
CorruptRepos == {"r1"}
\* A metadata field that is no Repository.
Malformed == Str("garbage")
WellFormed(doc) == doc # NoDoc /\ doc # NoSource /\ IsObj(doc.f[RepositoryReservedField])

MetadataKey(repoUri) ==
  <<RepositoryStatusIndexName(repoUri), getRepositoryObjectId(RepositoryReservedField)>>

SetMetadata(repoUri) ==
  LET out == setRepository(es, repoUri, RepositoryOf(repoUri)) IN
  /\ es' = out.store
  /\ resp' = Call("set", repoUri, RepositoryReservedField, NoValue, NoValue, out.res)
  /\ UNCHANGED <<searchable, calls, lastSet, initVars, jobVars>>

SetStatus(repoUri, field) ==
  LET out == SetOf(es, repoUri, field, Progress("Running", 0)) IN
  /\ es' = out.store
  /\ resp' = Call("set", repoUri, field, NoValue, NoValue, out.res)
  /\ UNCHANGED <<searchable, calls, lastSet, initVars, jobVars>>

\* The store refreshes: what was written becomes visible to search.  No
\* request of the client asks for a refresh.
Refresh ==
  /\ searchable # es
  /\ searchable' = es
  /\ UNCHANGED <<es, calls, resp, lastSet, initVars, jobVars>>

\* A metadata document turns out corrupt: its field is no Repository, or it
\* comes back without a _source.
Corrupt(repoUri, doc) ==
  /\ WellFormed(es[MetadataKey(repoUri)])
  /\ es' = [es EXCEPT ![MetadataKey(repoUri)] = doc]
  /\ UNCHANGED <<searchable, calls, resp, lastSet, initVars, jobVars>>

GetAll ==
  \E res \in getAllRepository(searchable) :
    /\ resp' = Call("list", "none", RepositoryReservedField, NoValue, NoValue, res)
    /\ UNCHANGED <<es, searchable, calls, lastSet, initVars, jobVars>>

ListNext ==
  \/ \E r \in Repos : SetMetadata(r)
  \/ \E r \in StatusRepos : SetStatus(r, RepositoryGitStatusReservedField)
  \/ \E r \in Repos : Delete(r)
  \/ \E r \in Repos : Get(r, RepositoryReservedField)
  \/ Refresh
  \/ \E r \in CorruptRepos :
        \E doc \in {NoSource, Obj(RepositoryReservedField :> Malformed)} : Corrupt(r, doc)
  \/ GetAll

(***************************************************************************)
(* Concurrent writers: two clients (workers) update the clone status of    *)
(* one repository; a call sends its request, the store handles the         *)
(* requests in flight one at a time in any order, the call returns.        *)
(***************************************************************************)
WriterRepo == "r1"
StatusKey == <<RepositoryStatusIndexName(WriterRepo),
               getRepositoryObjectId(RepositoryGitStatusReservedField)>>

\* The status the record starts with and the partial values the writers send.
FirstStatus == Obj([state |-> Str("Running"), progress |-> Num(0)])
WriterPartials ==
  { Obj([state |-> Str("Completed"), progress |-> Num(100)]),
    Obj([state |-> Str("Failed"), errorMessage |-> Str("clone failed")]) }

Conflict == [status |-> "Conflict", value |-> NoValue]

\* Mutant: the request carries the version the caller saw and the store
\* rejects it when the document has changed since.
Accepted_ifUnchanged(seen, current) == seen = current

\* The update request carries no version or sequence number: the store takes
\* it whatever the document was when the call was made.
Accepted(seen, current) == TRUE

InFlight(c) == calls[c].phase = "sent"

\* A client calls updateRepositoryGitStatus: the request is sent.
Issue(c, obj) ==
  /\ ~InFlight(c)
  /\ calls' = [calls EXCEPT ![c] = [phase |-> "sent", arg |-> obj, seen |-> es[StatusKey]]]
  /\ UNCHANGED <<es, searchable, resp, lastSet, initVars, jobVars>>

\* The store handles the request and the call returns.  An update that
\* meets another write of the document inside the store fails with a version
\* conflict (the request sets no retry_on_conflict).
Return(c) ==
  LET out == IF Accepted(calls[c].seen, es[StatusKey])
             THEN updateRepositoryGitStatus(es, WriterRepo, calls[c].arg)
             ELSE [store |-> es, res |-> Conflict]
  IN
  /\ InFlight(c)
  /\ \/ /\ es' = out.store
        /\ calls' = [calls EXCEPT ![c] = [phase |-> "returned", arg |-> @.arg,
                                          seen |-> @.seen, status |-> out.res.status]]
     \/ /\ \E d \in Clients \ {c} : InFlight(d)
        /\ es' = es
        /\ calls' = [calls EXCEPT ![c] = [phase |-> "returned", arg |-> @.arg,
                                          seen |-> @.seen, status |-> Conflict.status]]
  /\ UNCHANGED <<searchable, resp, lastSet, initVars, jobVars>>

WritersInit ==
  /\ es = setRepositoryGitStatus(EmptyStore, WriterRepo, FirstStatus).store
  /\ searchable = es
  /\ calls = [c \in Clients |-> NoCall]
  /\ resp = Call("set", WriterRepo, RepositoryGitStatusReservedField, FirstStatus, NoValue,
                 Ok(NoValue))
  /\ lastSet = None
  /\ SysInit
  /\ disableScheduler = TRUE

WritersNext ==
  \/ \E c \in Clients, p \in WriterPartials : Issue(c, p)
  \/ \E c \in Clients : Return(c)

(***************************************************************************)
(* Specifications.  Spec: any caller drives the status store client.       *)
(* SysSpec: the plugin starts and the jobs run.  ListSpec: repositories    *)
(* come and go and are enumerated.  WritersSpec: two clients update one    *)
(* record concurrently.                                                    *)
(***************************************************************************)
Init ==
  /\ StoreInit
  /\ SysInit
  /\ disableScheduler = TRUE

Next == StoreNext

Spec == Init /\ [][Next]_vars

SysInitial ==
  /\ StoreInit
  /\ SysInit
  /\ disableScheduler \in BOOLEAN

SysNext ==
  \/ InitNext
  \/ JobNext

SysSpec == SysInitial /\ [][SysNext]_vars

ListSpec == Init /\ [][ListNext]_vars

WritersSpec == WritersInit /\ [][WritersNext]_vars

(***************************************************************************)
(* Properties of the status store.                                         *)
(***************************************************************************)
\* A value made of JSON data only: no Date and no undefined property.
RECURSIVE IsJsonData(_)
IsJsonData(v) ==
  CASE v.k = "obj" -> \A key \in Keys(v) : IsJsonData(v.f[key])
    [] v.k \in {"date", "undefined"} -> FALSE
    [] OTHER -> TRUE

\* got is what v reads back as: a Date as its ISO string, an undefined
\* property absent, everything else as written.
RECURSIVE ReadsBackAs(_, _)
ReadsBackAs(got, v) ==
  CASE v.k = "date" -> got = Str(IsoString(v.t))
    [] v.k = "obj" ->
         /\ IsObj(got)
         /\ Keys(got) = {key \in Keys(v) : v.f[key].k # "undefined"}
         /\ \A key \in Keys(got) : ReadsBackAs(got.f[key], v.f[key])
    [] OTHER -> got = v

\* got is v with the partial value p merged in: a property p does not name,
\* or names as undefined, is as in v; a property that is an object in both is
\* merged by the same rule; any other property p names reads back as p's.
RECURSIVE MergedAs(_, _, _)
MergedAs(got, v, p) ==
  /\ IsObj(got)
  /\ Keys(got) = Keys(v) \cup {key \in Keys(p) : p.f[key].k # "undefined"}
  /\ \A key \in Keys(got) :
       IF key \notin Keys(p) \/ p.f[key].k = "undefined"
       THEN got.f[key] = v.f[key]
       ELSE IF key \in Keys(v) /\ IsObj(v.f[key]) /\ IsObj(p.f[key])
            THEN MergedAs(got.f[key], v.f[key], p.f[key])
            ELSE ReadsBackAs(got.f[key], p.f[key])

GetAfterSet == resp.op = "get" /\ SameRecord(lastSet, resp.repo, resp.field)

\* C1 as stated: a get of a record whose last write was set(r, s, v) returns
\* exactly v, for every value v.
C1_RoundTripExact ==
  GetAfterSet => resp.status = "ok" /\ resp.value = lastSet.value

\* C1 amended: a get of a record whose last write was set(r, s, v) succeeds
\* and returns v as it reads back from JSON (a Date as its ISO string, an
\* undefined property absent); it is exactly v when v is JSON data.
C1_RoundTripJson ==
  GetAfterSet =>
    /\ resp.status = "ok"
    /\ ReadsBackAs(resp.value, lastSet.value)
    /\ IsJsonData(lastSet.value) => resp.value = lastSet.value

\* A get has answered for a JSON-clean value set earlier, with another
\* record in the store.
C1_Witness ==
  /\ GetAfterSet
  /\ IsJsonData(lastSet.value)
  /\ resp.value = lastSet.value
  /\ NumRecords(es) = 2

\* C2: after a delete of an existing record, a second delete of it returns
\* without error and a get of it fails with NotFound.
C2_IdempotentDelete ==
  [][(resp.op = "delete" /\ resp.status = "ok"
        /\ resp'.repo = resp.repo /\ resp'.field = resp.field)
      => /\ resp'.op = "delete" => resp'.status = "ok"
         /\ resp'.op = "get" => resp'.status = "NotFound"]_vars

\* C3: an update of a record that does not exist fails with NotFound, leaves
\* every record as it was, and a get of the record afterwards still fails
\* with NotFound.
C3_UpdateMissing ==
  [][(resp'.op = "update" /\ ~HasRecord(es, resp'.repo, resp'.field))
      => /\ resp'.status = "NotFound"
         /\ resp'.value = NoValue
         /\ es' = es
         /\ GetOf(es', resp'.repo, resp'.field) = NotFound]_vars

\* An update has failed with NotFound while other records exist.
C3_Witness ==
  /\ resp.op = "update"
  /\ resp.status = "NotFound"
  /\ NumRecords(es) = 2

UpdateDone == resp.op = "update" /\ resp.status = "ok"

\* C4 as stated: after update(r, s, p) of a record holding v, a get returns a
\* value where every field p names has p's value and every other field of v
\* is as in v.
C4_PartialMergeExact ==
  UpdateDone =>
    LET got == GetOf(es, resp.repo, resp.field) IN
    /\ got.status = "ok"
    /\ \A key \in Keys(resp.arg) :
         HasOwn(got.value, key) /\ got.value.f[key] = resp.arg.f[key]
    /\ \A key \in Keys(resp.before) \ Keys(resp.arg) :
         HasOwn(got.value, key) /\ got.value.f[key] = resp.before.f[key]

\* C4 amended: after update(r, s, p) of a record holding v, a get returns v
\* with p merged in: fields p does not name, or names as undefined, are as in
\* v; a field that is an object in both v and p is merged recursively; every
\* other field p names has p's value as it reads back from JSON.
C4_PartialMerge ==
  UpdateDone =>
    LET got == GetOf(es, resp.repo, resp.field) IN
    /\ got.status = "ok"
    /\ MergedAs(got.value, resp.before, resp.arg)

\* An update has changed a scalar field and a nested field of a record and
\* left another nested field alone.
C4_Witness ==
  /\ UpdateDone
  /\ HasOwn(resp.before, "cloneProgress")
  /\ HasOwn(resp.before.f["cloneProgress"], "totalObjects")
  /\ HasOwn(resp.arg, "cloneProgress")
  /\ GetOf(es, resp.repo, resp.field).value # resp.before

\* C5: a get of a record that does not exist fails with NotFound and
\* returns no value.
C5_GetMissing ==
  (resp.op = "get" /\ ~HasRecord(es, resp.repo, resp.field))
    => resp.status = "NotFound" /\ resp.value = NoValue

\* A get has failed with NotFound while another stage of the same repository
\* and the same stage of another repository have records.
C5_Witness ==
  /\ resp.op = "get"
  /\ resp.status = "NotFound"
  /\ \E f \in ReservedFields \ {resp.field} : HasRecord(es, resp.repo, f)
  /\ \E r \in StoreRepos \ {resp.repo} : HasRecord(es, r, resp.field)

(***************************************************************************)
(* Properties of the init sequence and of the job orchestration.           *)
(***************************************************************************)
NoJobs == NumJobs = 0
Executing(type, repoUri) == running[type] # Idle /\ running[type].repo = repoUri

\* C6: tryMigrateIndices is called once, and whenever the queue exists or a
\* worker is bound the migration has been called exactly once and is done
\* (not unstarted, not in progress, not failed).
C6_StartupOrdering ==
  /\ migrationCalls <= 1
  /\ (queueCreated \/ bound # {}) => migration = "done" /\ migrationCalls = 1
  /\ pc = "done" => migrationCalls = 1

\* All four workers are bound, after a migration that ran and completed.
C6_Witness ==
  /\ bound = WorkerTypes
  /\ queueCreated
  /\ migration = "done"

\* C7: once the migration has failed, it stays failed and the queue is never
\* created, no worker bound, no scheduler started, no route registered, no
\* job accepted or executed.
C7_MigrationFatal ==
  /\ [](migration = "failed"
         => /\ ~queueCreated
            /\ bound = {}
            /\ started = {}
            /\ ticked = {}
            /\ ~routes
            /\ NoJobs)
  /\ [][migration = "failed" => migration' = "failed"]_vars

\* The migration has failed and init has stopped on it.
C7_Witness ==
  /\ migration = "failed"
  /\ pc = "failed"

\* C8: with the switch set to disabled no scheduler is started and none
\* ever ticks.
C8_SchedulersDisabled ==
  disableScheduler => started = {} /\ ticked = {}

\* Schedulers disabled, init done, all workers bound and a job being handled.
C8_Witness ==
  /\ disableScheduler
  /\ pc = "done"
  /\ bound = WorkerTypes
  /\ \E t \in WorkerTypes : running[t] # Idle

\* C9: while the delete worker waits after requesting cancellation for R,
\* every Clone or Index job that was in flight for R at the request holds a
\* handle of the cancellation service and has received the signal.
C9_DeleteCancelsInFlight ==
  \A r \in JobRepos : \A t \in cancelAsked[r] :
    (running["delete"] = [repo |-> r, phase |-> "waiting"] /\ Executing(t, r))
      => handles[t][r] = "signalled"

StageRunning(type, repoUri) ==
  LET d == es[<<RepositoryStatusIndexName(repoUri), StageField(type)>>] IN
  /\ d # NoDoc
  /\ HasOwn(d, StageField(type))
  /\ HasOwn(d.f[StageField(type)], "state")
  /\ d.f[StageField(type)].f["state"] = Str("Running")

\* The step ends the clone job of the repository (the one enqueue that is
\* chained to a job's success rather than guarded by the status check).
CloneEnds(repoUri) == Executing("clone", repoUri) /\ running'["clone"] = Idle

StageState(type, repoUri) ==
  LET d == es[<<RepositoryStatusIndexName(repoUri), StageField(type)>>] IN
  IF d # NoDoc /\ HasOwn(d, StageField(type)) /\ HasOwn(d.f[StageField(type)], "state")
  THEN d.f[StageField(type)].f["state"].s ELSE "none"
StageTime(type, repoUri) ==
  LET d == es[<<RepositoryStatusIndexName(repoUri), StageField(type)>>] IN
  IF d # NoDoc /\ HasOwn(d, StageField(type)) /\ HasOwn(d.f[StageField(type)], "timestamp")
  THEN d.f[StageField(type)].f["timestamp"].n ELSE 0

\* C11: a tick of the index scheduler on a repository whose Index status is
\* Running enqueues nothing; a tick on a repository whose Index status is
\* Completed or Failed and whose last index time is more than the configured
\* frequency ago enqueues exactly one Index job for it and no other job.
C11_SchedulerSingleFlight ==
  [][\A r \in JobRepos :
       SchedulerTick("index", r) =>
         /\ StageState("index", r) = "Running" => queued' = queued
         /\ (/\ StageState("index", r) \in {"Completed", "Failed"}
             /\ now - StageTime("index", r) > RepoFrequency)
              => queued' = [queued EXCEPT !["index"][r] = @ + 1]]_vars

\* The index scheduler has skipped a repository and has enqueued a refresh:
\* the index of r1 completed more than the frequency ago and one Index job
\* is queued for it.
C11_Witness ==
  /\ <<"index", "skipped">> \in ticked
  /\ <<"index", "enqueued">> \in ticked
  /\ StageState("index", "r1") = "Completed"
  /\ now - StageTime("index", "r1") > RepoFrequency
  /\ queued["index"]["r1"] = 1

\* C12: the step that ends a Clone job of R leaves GitCloneStatus Completed,
\* Failed or Cancelled; when it leaves Completed exactly one Index job has
\* been enqueued for R (and nothing else), otherwise no job has been enqueued.
C12_Chaining ==
  [][\A r \in JobRepos :
       CloneEnds(r) =>
         LET d == es'[<<RepositoryStatusIndexName(r), RepositoryGitStatusReservedField>>]
             state == d.f[RepositoryGitStatusReservedField].f["state"].s
         IN /\ d # NoDoc
            /\ state \in {"Completed", "Failed", "Cancelled"}
            /\ state = "Completed" => queued' = [queued EXCEPT !["index"][r] = @ + 1]
            /\ state # "Completed" => queued' = queued]_vars

\* A clone of r1 has completed while an index of r1 was executing, and its
\* Index job waits in the queue.
C12_Witness ==
  /\ StageState("clone", "r1") = "Completed"
  /\ running["clone"] = Idle
  /\ Executing("index", "r1")
  /\ queued["index"]["r1"] = 1
  /\ queued["clone"]["r1"] = 0

(***************************************************************************)
(* Further properties of the status store.                                 *)
(***************************************************************************)
SetDone == resp.op = "set"

\* C13 as stated: after set(r, s, v) the record (r, s) exists and is exactly
\* v, whatever was there before.
C13_SetExact ==
  SetDone =>
    /\ resp.status = "ok"
    /\ GetOf(es, resp.repo, resp.field) = Ok(resp.arg)

\* C13 amended: set(r, s, v) succeeds whether or not the record existed;
\* afterwards the record exists and holds v as it reads back from JSON and
\* nothing else (exactly v when v is JSON data), and the same set once more
\* leaves the whole store unchanged.
C13_SetReplace ==
  SetDone =>
    LET got == GetOf(es, resp.repo, resp.field) IN
    /\ resp.status = "ok"
    /\ HasRecord(es, resp.repo, resp.field)
    /\ got.status = "ok"
    /\ ReadsBackAs(got.value, resp.arg)
    /\ IsJsonData(resp.arg) => got.value = resp.arg
    /\ SetOf(es, resp.repo, resp.field, resp.arg).store = es

\* A set has replaced a record that held a field the new value does not
\* have; the field is gone.
C13_Witness ==
  /\ SetDone
  /\ HasOwn(resp.before, "cloneProgress")
  /\ HasOwn(resp.before.f["cloneProgress"], "totalObjects")
  /\ ~HasOwn(resp.arg.f["cloneProgress"], "totalObjects")
  /\ ~HasOwn(GetOf(es, resp.repo, resp.field).value.f["cloneProgress"], "totalObjects")

(***************************************************************************)
(* Properties of the enumeration.                                          *)
(***************************************************************************)
\* The step is a getAllRepository call that returned a list.
Listed == GetAll /\ resp'.status = "ok"
Range(seq) == {seq[i] : i \in 1..Len(seq)}
Registered_(store) == {r \in Repos : store[MetadataKey(r)] # NoDoc}

\* C14: a getAllRepository call made while no more than size repositories
\* have a metadata record, all well formed, returns exactly the metadata
\* of the repositories whose record exists in the store at the call, each
\* once.
C14_EnumerationComplete ==
  [][(/\ Listed
      /\ Cardinality(Registered_(es)) <= size
      /\ \A r \in Registered_(es) : WellFormed(es[MetadataKey(r)]))
       => /\ Range(resp'.value.items) = {RepositoryOf(r) : r \in Registered_(es)}
          /\ Len(resp'.value.items) = Cardinality(Registered_(es))]_vars

\* C15: a getAllRepository call returns at most size entries, each the
\* metadata of a different document the search sees, so none twice; with
\* more than size repositories visible it returns size of them.
C15_EnumerationBound ==
  [][Listed =>
       LET items == resp'.value.items IN
       /\ Len(items) <= size
       /\ \A i, j \in 1..Len(items) : items[i] = items[j] => i = j
       /\ Len(items) = MinOf(size, Cardinality(Registered_(searchable)))]_vars

\* More repositories are visible to the search than the page holds, and the
\* call returned a full page of different repositories.
C15_Witness ==
  /\ resp.op = "list"
  /\ resp.status = "ok"
  /\ Cardinality(Registered_(searchable)) > size
  /\ Len(resp.value.items) = size
  /\ Cardinality(Range(resp.value.items)) = size
  /\ \A r \in Registered_(searchable) : WellFormed(searchable[MetadataKey(r)])

\* C16: every call issues exactly one request to the store, a get answers
\* with the record as the store holds it at the call (NotFound when it
\* holds none), and an enumeration answers with the repositories whose
\* metadata the store holds at the call, whoever wrote them.
C16_ReadsLatestWrite ==
  [][/\ resp'.op # "none" => Len(esClientRequests(resp'.op)) = 1
     /\ \A r \in Repos :
          (Get(r, RepositoryReservedField) /\ es[MetadataKey(r)] # NoSource) =>
             IF es[MetadataKey(r)] = NoDoc
             THEN resp'.status = "NotFound"
             ELSE resp'.status = "ok" /\ resp'.value = es[MetadataKey(r)].f[RepositoryReservedField]
     /\ (/\ Listed
         /\ Cardinality(Registered_(es)) <= size
         /\ \A r \in Registered_(es) : es[MetadataKey(r)] # NoSource)
          => Range(resp'.value.items)
               = {es[MetadataKey(r)].f[RepositoryReservedField] : r \in Registered_(es)}]_vars

\* C17: a getAllRepository call returns a list whatever the documents among
\* its hits look like, and the list holds every well-formed repository the
\* search sees (when they fit the page).
C17_CorruptTolerated ==
  [][GetAll =>
       /\ resp'.status = "ok"
       /\ Cardinality(Registered_(searchable)) <= size =>
            \A r \in Registered_(searchable) :
              WellFormed(searchable[MetadataKey(r)])
                => RepositoryOf(r) \in Range(resp'.value.items)]_vars

(***************************************************************************)
(* Properties of concurrent writers.                                       *)
(***************************************************************************)
Returned(c) == calls[c].phase = "returned"
Returns(c) == InFlight(c) /\ calls'[c].phase = "returned"
StatusValue(store) == store[StatusKey].f[RepositoryGitStatusReservedField]

\* C18: an update of the existing record is never refused because the record
\* has changed since the call was made: it fails only on a version conflict
\* with another request in flight, and then changes nothing; otherwise it
\* returns without error and the record is the record it met with the partial
\* value merged in, so a field both writers name keeps only the later value.
C18_NoConcurrencyToken ==
  [][\A c \in Clients :
       Returns(c) =>
         /\ calls'[c].status \in {"ok", "Conflict"}
         /\ calls'[c].status = "Conflict" =>
              (es' = es /\ \E d \in Clients \ {c} : InFlight(d))
         /\ (\A d \in Clients \ {c} : ~InFlight(d)) => calls'[c].status = "ok"
         /\ calls'[c].status = "ok" =>
              MergedAs(StatusValue(es'), StatusValue(es), calls[c].arg)]_vars

\* Two update calls made on the same state of the record (each sent before
\* the other was handled) have both returned without error, and the record
\* does not hold the state one of them wrote.
C18_Witness ==
  /\ \A c \in Clients : Returned(c) /\ calls[c].status = "ok"
  /\ calls["c1"].seen = calls["c2"].seen
  /\ calls["c1"].arg # calls["c2"].arg
  /\ \E c \in Clients : StatusValue(es).f["state"] # calls[c].arg.f["state"]
  /\ StatusValue(es).f["progress"] = Num(100)
  /\ HasOwn(StatusValue(es), "errorMessage")

(***************************************************************************)
(* Frame of the status store's writes.                                     *)
(***************************************************************************)
\* C19: a call on the record (r, s) leaves every other record as it was: a
\* get of it fails with NotFound as before, or returns the value it returned
\* before.  So a delete of r's metadata leaves r's three statuses readable,
\* and a write of one stage's status never changes another stage's.
C19_RecordIsolation ==
  [][es' # es =>
       \A r \in StoreRepos, f \in ReservedFields :
         (r # resp'.repo \/ f # resp'.field) => GetOf(es', r, f) = GetOf(es, r, f)]_vars

\* The metadata of a repository has been deleted and a status of the same
\* repository is still there to read.
C19_Witness ==
  /\ resp.op = "delete"
  /\ resp.status = "ok"
  /\ ~HasRecord(es, resp.repo, RepositoryReservedField)
  /\ \E f \in ReservedFields \ {RepositoryReservedField} :
       GetOf(es, resp.repo, f).status = "ok"

====
